---- MODULE Spec2Model ----
(***************************************************************************)
(* Model of the health service of pkg/fx/health (src/unnamed/part_000):    *)
(* the coordinator loop service.run, the registration handler, the         *)
(* timeout-wrapped Checker, the per-check scheduler, the run semaphore,    *)
(* the result store with its overall-health aggregate, the three           *)
(* subscription streams and TriggerShutdown; and, of the application       *)
(* around it (pkg/fxapp), the liveness probe and the readiness hook.       *)
(*                                                                         *)
(* Every goroutine of the code is a process of the model; a step of the    *)
(* model is the code between two blocking points of one goroutine.         *)
(***************************************************************************)
EXTENDS Integers, Sequences, FiniteSets, Bags, TLC

(***************************************************************************)
(* Bounds of the model.                                                    *)
(***************************************************************************)
\* Check IDs are 1..NumIDs.
NumIDs == 2
\* Opts.MaxCheckParallelism is drawn from 0..MaxPar.
MaxPar == 1
\* Cap on the number of subscriber channels per stream.
MaxSubs == 2
\* Cap on the number of inputs taken: Register, snapshot and subscribe requests,
\* calls of Shutdown, and interval timers that fire.
MaxOps == 3
\* Number of goroutines that call Shutdown, once each.
NumCallers == 2

IDs == 1..NumIDs
Callers == 1..NumCallers

(***************************************************************************)
(* Status: the tri-state health status.  Green is the zero value.          *)
(***************************************************************************)
Green == 0
Yellow == 1
Red == 2
Status == {Green, Yellow, Red}

(***************************************************************************)
(* Errors are multierr lists: a sequence of error labels, <<>> is nil.     *)
(***************************************************************************)
NilErr == <<>>
ErrTimeout == <<"ErrTimeout">>
ErrNilChecker == <<"ErrNilChecker">>
ErrRunIntervalTooFrequent == <<"ErrRunIntervalTooFrequent">>
ErrRunTimeoutTooHigh == <<"ErrRunTimeoutTooHigh">>
ErrAlreadyRegistered == <<"health check is already registered">>
ErrInvalidOpts == <<"invalid health checker opts">>
ErrCheckFailed == <<"health check failed">>
ErrRaw == <<"raw check error">>

\* multierr.Append(left, right): nil operands vanish, the lists are concatenated.
MultierrAppend(left, right) == left \o right

(***************************************************************************)
(* Opts: the engine-wide settings, in abstract time units.                 *)
(***************************************************************************)
DefaultTimeout == 2
DefaultRunInterval == 3
MinRunInterval == 2
MaxTimeout == 3

\* The Timeout / RunInterval values a Register request may carry (0 is "unset").
ReqTimeouts == {0, 1, 4}
ReqIntervals == {0, 1}
ReqOpts == [Timeout : ReqTimeouts, RunInterval : ReqIntervals]

\* What a raw check function may return: <<status, error>>.
RawOutcomes == {<<Green, NilErr>>, <<Green, ErrRaw>>, <<Yellow, NilErr>>, <<Red, ErrRaw>>}

\* How long a raw check function that returns before the timeout is taken may have run:
\* less than every timeout.
RawDurations == {0}

\* The predicates a caller may pass with a results request or subscription.
Filters == {"nil", "red"}

VARIABLES
    maxPar,         \* Opts.MaxCheckParallelism
    checks,         \* s.checks: sequence of RegisteredCheck
    runResults,     \* s.runResults: a function from the check IDs that have a Result
    overallHealth,  \* s.overallHealth
    stop,           \* s.stop is closed
    panicked,       \* the process has panicked
    coordPc,        \* where the goroutine of service.run is
    regReq,         \* the Register request in progress, with the error Register returned
    regCaller,      \* where the caller of Register is
    subsRC,         \* number of channels in s.subscriptionsForRegisteredChecks
    subsCR,         \* s.subscriptionsForCheckResults: channel -> filter
    subsOH,         \* s.subscriptionsForOverallHealthChanges: channel -> content of its 1-slot buffer
    ohSeen,         \* per overall-health channel: the status at subscription, the first and
                    \* the last value received, whether a value was received twice in a row
    deliveries,     \* bag of pending subscriber-delivery goroutines
    runSemaphore,   \* number of tokens in s.runSemaphore
    sched,          \* where the Schedule goroutine of each check ID is
    abandoned,      \* per check ID: raw check functions abandoned by a timeout and still running
    reports,        \* bag of pending result-report goroutines
    produced,       \* per check ID: the Result of the latest run of its scheduler that has ended
    sdPc,           \* where each caller of TriggerShutdown is
    ops,            \* number of inputs taken so far
    probe,          \* outcome of the last call of the liveness probe
    hook,           \* the readiness hook of the application: where it is, what it has seen
    wg              \* count of the application's ReadinessWaitGroup

vars == <<maxPar, checks, runResults, overallHealth, stop, panicked, coordPc, regReq,
          regCaller, subsRC, subsCR, subsOH, ohSeen, deliveries, runSemaphore, sched,
          abandoned, reports, produced, sdPc, ops, probe, hook, wg>>

\* The state the coordinator owns.
coordState == <<checks, runResults, overallHealth, subsRC, subsCR, subsOH>>

(***************************************************************************)
(* Result records and the helpers of Register.                             *)
(***************************************************************************)
\* A healthCheckFailure that hands the error of the raw check through.
healthCheckFailureRaw(status, err) == err

\* healthCheckFailure of WithTimeout: the Err of a Result.
healthCheckFailure(status, err) ==
    IF status = Green THEN NilErr ELSE MultierrAppend(ErrCheckFailed, err)

\* The Result WithTimeout builds when the raw check function returned in time.
CompletedResult(id, status, err, duration) ==
    [ID |-> id, Status |-> status, Err |-> healthCheckFailure(status, err), Duration |-> duration]

\* A timeout Result whose Duration is measured, not set to the timeout.
TimeoutResultMeasured(id, timeout) ==
    [ID |-> id, Status |-> Red, Err |-> healthCheckFailure(Red, ErrTimeout),
     Duration |-> timeout + 1]

\* The Result WithTimeout builds when the timer fired first.
TimeoutResult(id, timeout) ==
    [ID |-> id, Status |-> Red, Err |-> healthCheckFailure(Red, ErrTimeout), Duration |-> timeout]

\* A defaulting that leaves a zero Timeout as it is.
ApplyDefaultOptsIntervalOnly(opts) ==
    [Timeout |-> opts.Timeout,
     RunInterval |-> IF opts.RunInterval = 0 THEN DefaultRunInterval ELSE opts.RunInterval]

ApplyDefaultOpts(opts) ==
    [Timeout |-> IF opts.Timeout = 0 THEN DefaultTimeout ELSE opts.Timeout,
     RunInterval |-> IF opts.RunInterval = 0 THEN DefaultRunInterval ELSE opts.RunInterval]

\* A validation that forgets the run interval.
ValidateOptsTimeoutOnly(opts) ==
    IF opts.Timeout > MaxTimeout THEN ErrRunTimeoutTooHigh ELSE NilErr

\* A validation whose second error overwrites the first.
ValidateOptsOverwrite(opts) ==
    IF opts.Timeout > MaxTimeout THEN ErrRunTimeoutTooHigh
    ELSE IF opts.RunInterval < MinRunInterval THEN ErrRunIntervalTooFrequent ELSE NilErr

ValidateOpts(opts) ==
    MultierrAppend(IF opts.RunInterval < MinRunInterval THEN ErrRunIntervalTooFrequent ELSE NilErr,
                   IF opts.Timeout > MaxTimeout THEN ErrRunTimeoutTooHigh ELSE NilErr)

\* A lookup that only looks at the entry appended last.
IsRegisteredLastOnly(table, id) == Len(table) > 0 /\ table[Len(table)].ID = id

\* A lookup that never finds the check.
IsRegisteredNever(table, id) == FALSE

\* service.RegisteredCheck(id) # nil
IsRegistered(table, id) == \E k \in 1..Len(table) : table[k].ID = id

\* A Register that validates the options before it looks at the checker function.
RegisterErrOptsFirst(table, id, opts, checkerNil) ==
    IF ValidateOpts(ApplyDefaultOpts(opts)) # NilErr
    THEN MultierrAppend(ErrInvalidOpts, ValidateOpts(ApplyDefaultOpts(opts)))
    ELSE IF checkerNil THEN MultierrAppend(<<ToString(id)>>, ErrNilChecker)
    ELSE IF IsRegistered(table, id) THEN ErrAlreadyRegistered
    ELSE NilErr

\* The error service.Register returns for a request, given the table.
RegisterErr(table, id, opts, checkerNil) ==
    IF checkerNil THEN MultierrAppend(<<ToString(id)>>, ErrNilChecker)
    ELSE IF ValidateOpts(ApplyDefaultOpts(opts)) # NilErr
         THEN MultierrAppend(ErrInvalidOpts, ValidateOpts(ApplyDefaultOpts(opts)))
    ELSE IF IsRegistered(table, id) THEN ErrAlreadyRegistered
    ELSE NilErr

\* A nil Checker.
NilChecker == [ID |-> 0, Timeout |-> 0]

\* WithTimeout(id, check, timeout): the closure it returns, which holds id and timeout.
WithTimeout(id, timeout) == [ID |-> id, Timeout |-> timeout]

\* The RegisteredCheck a successful Register appends.
NewRegisteredCheck(id, opts) ==
    [ID |-> id, Timeout |-> ApplyDefaultOpts(opts).Timeout,
     RunInterval |-> ApplyDefaultOpts(opts).RunInterval,
     Checker |-> WithTimeout(id, ApplyDefaultOpts(opts).Timeout)]

\* The timeout the Checker of a registered check holds.
CheckerTimeoutOf(table, id) ==
    table[CHOOSE k \in 1..Len(table) : table[k].ID = id].Checker.Timeout

(***************************************************************************)
(* The overall-health aggregate, computed as service.OverallHealth does:   *)
(* one pass over the map in some iteration order, returning at the first   *)
(* Red and remembering a Yellow.                                           *)
(***************************************************************************)
StoredIDs(results) == DOMAIN results

\* The iteration orders of a map with the key set S.
Orders(S) == {o \in [1..Cardinality(S) -> S] : \A a, b \in DOMAIN o : a # b => o[a] # o[b]}

RECURSIVE OverallHealthLoop(_, _, _)
OverallHealthLoop(results, order, status) ==
    IF order = <<>> THEN status
    ELSE LET result == results[Head(order)] IN
         IF result.Status = Red THEN Red
         ELSE OverallHealthLoop(results, Tail(order),
                                IF result.Status = Yellow THEN Yellow ELSE status)

\* A loop that goes on after a Red instead of returning: the last non-Green status wins.
RECURSIVE OverallHealthLastWinsLoop(_, _, _)
OverallHealthLastWinsLoop(results, order, status) ==
    IF order = <<>> THEN status
    ELSE LET result == results[Head(order)] IN
         OverallHealthLastWinsLoop(results, Tail(order),
                                   IF result.Status \in {Yellow, Red} THEN result.Status ELSE status)

\* A loop that returns at the first Result that is not Green, be it Yellow or Red.
RECURSIVE OverallHealthFirstNotGreen(_, _)
OverallHealthFirstNotGreen(results, order) ==
    IF order = <<>> THEN Green
    ELSE IF results[Head(order)].Status # Green THEN results[Head(order)].Status
    ELSE OverallHealthFirstNotGreen(results, Tail(order))

OverallHealthLastWins(results, order) == OverallHealthLastWinsLoop(results, order, Green)

OverallHealth(results, order) == OverallHealthLoop(results, order, Green)

\* A store that is replaced by the one Result.
StoreResultAlone(results, r) == [id \in {r.ID} |-> r]

\* A coordinator that publishes a Result without storing it.
StoreResultSkipped(results, r) == results

\* A store that keeps the Result it already has for the ID.
StoreResultKeepFirst(results, r) ==
    [id \in DOMAIN results \cup {r.ID} |-> IF id \in DOMAIN results THEN results[id] ELSE r]

\* line 94: s.runResults[result.ID] = result
StoreResult(results, r) ==
    [id \in DOMAIN results \cup {r.ID} |-> IF id = r.ID THEN r ELSE results[id]]

\* The filter a results request or subscription carries, applied to a Result.
FilterAccepts(filter, r) == IF filter = "nil" THEN TRUE ELSE r.Status = Red

(***************************************************************************)
(* Bags of goroutines.                                                     *)
(***************************************************************************)
BagAdd(B, e) == B (+) SetToBag({e})
BagRemove(B, e) == B (-) SetToBag({e})

RECURSIVE BagAddAll(_, _)
BagAddAll(B, S) ==
    IF S = {} THEN B
    ELSE LET e == CHOOSE x \in S : TRUE IN BagAddAll(BagAdd(B, e), S \ {e})

\* A publishResult that does not ask the filters.
ResultDeliveriesUnfiltered(subs, r) ==
    {[stream |-> "CR", ch |-> k, val |-> r] : k \in 1..Len(subs)}

\* The delivery goroutines publishResult starts for a Result.
ResultDeliveries(subs, r) ==
    {[stream |-> "CR", ch |-> k, val |-> r] : k \in {j \in 1..Len(subs) : FilterAccepts(subs[j], r)}}

\* An updateOverallHealth that notifies without comparing.
OverallHealthDeliveriesAlways(subs, previous, current) ==
    {[stream |-> "OH", ch |-> k, val |-> current] : k \in 1..Len(subs)}

\* The delivery goroutines updateOverallHealth starts.
OverallHealthDeliveries(subs, previous, current) ==
    IF previous = current THEN {}
    ELSE {[stream |-> "OH", ch |-> k, val |-> current] : k \in 1..Len(subs)}

\* A loop over the subscribers that leaves the last one out.
RegistrationDeliveriesSkipLast(n, check) ==
    {[stream |-> "RC", ch |-> k, val |-> check] : k \in 1..(n - 1)}

\* The delivery goroutines SendRegisteredCheckToSubscribers starts.
RegistrationDeliveries(n, check) ==
    {[stream |-> "RC", ch |-> k, val |-> check] : k \in 1..n}

(***************************************************************************)
(* Initial state: newService, before any request.                          *)
(***************************************************************************)
NoReq == [id |-> 0, opts |-> [Timeout |-> 0, RunInterval |-> 0], checkerNil |-> FALSE, err |-> NilErr]

\* newService fills the semaphore with MaxCheckParallelism tokens.
InitialTokens(n) == n

\* NewReadinessWaitgroup(1), and the wg.Add(1) of healthCheckReadiness.
InitialReadinessCount == 1 + 1

Init ==
    /\ maxPar \in 0..MaxPar
    /\ checks = <<>>
    /\ runResults = <<>>
    /\ overallHealth = Green
    /\ stop = FALSE
    /\ panicked = FALSE
    /\ coordPc = "select"
    /\ regReq = NoReq
    /\ regCaller = "idle"
    /\ subsRC = 0
    /\ subsCR = <<>>
    /\ subsOH = <<>>
    /\ ohSeen = <<>>
    /\ deliveries = EmptyBag
    /\ runSemaphore = InitialTokens(maxPar)
    /\ sched = [id \in IDs |-> "none"]
    /\ abandoned = [id \in IDs |-> 0]
    /\ reports = EmptyBag
    /\ produced = [id \in IDs |-> <<>>]
    /\ sdPc = [c \in Callers |-> "idle"]
    /\ ops = 0
    /\ probe = "none"
    /\ hook = [pc |-> "idle", snapshot |-> <<>>, statuses |-> <<>>, err |-> NilErr]
    /\ wg = InitialReadinessCount

\* A loop that leaves the select, not the for, on the stop signal.
AtSelectAfterBreak == coordPc \in {"select", "done"}

\* The coordinator is at the select of service.run.
AtSelect == coordPc = "select"

(***************************************************************************)
(* The coordinator: service.run, one action per case of its select.        *)
(***************************************************************************)
\* A publisher that makes the sends itself and waits until they are received.
AfterPublishWaits(started) == IF started = {} THEN "select" ELSE "publishing"

\* The coordinator's place after it has published to the subscribers: every send is made
\* by a goroutine of its own, so the handler returns whatever was started.
AfterPublish(started) == "select"

\* case <-s.stop: return
CoordStop ==
    /\ ~panicked
    /\ AtSelect
    /\ stop
    /\ coordPc' = "done"
    /\ UNCHANGED <<maxPar, checks, runResults, overallHealth, stop, panicked, regReq,
                   regCaller, subsRC, subsCR, subsOH, ohSeen, deliveries, runSemaphore, sched,
                   abandoned, reports, produced, sdPc, ops, probe, hook, wg>>

\* A Schedule that waits for the interval before its first run.
ScheduleStartAtTimer == "wait"

\* go Schedule(...): the new goroutine calls run() at once.
ScheduleStart == "acquire"

\* A table that takes a new check at its front.
PrependCheck(table, check) == <<check>> \o table

\* s.checks = append(s.checks, registeredCheck)
AppendCheck(table, check) == Append(table, check)

\* A Register that starts the Schedule goroutine before it looks at the request.
SpawnedAlways(err) == TRUE

\* Register gets to go Schedule(...) when it took none of the returns before it.
Spawned(err) == err = NilErr

\* case req := <-s.register: err := s.Register(req); s.sendError(req.reply, err)
\* up to the select of sendError; a nil error closes the reply channel at once, and the
\* caller reads nil from the closed channel and returns it.
CoordRegister(id, opts, checkerNil) ==
    /\ ~panicked
    /\ AtSelect
    /\ regCaller = "idle"
    /\ ops < MaxOps
    /\ ops' = ops + 1
    /\ LET err == RegisterErr(checks, id, opts, checkerNil)
           registeredCheck == NewRegisteredCheck(id, opts)
       IN  /\ sched' = IF Spawned(err) THEN [sched EXCEPT ![id] = ScheduleStart] ELSE sched
           /\ IF err = NilErr
              THEN /\ checks' = AppendCheck(checks, registeredCheck)
                   /\ deliveries' = BagAddAll(deliveries,
                                              RegistrationDeliveries(subsRC, registeredCheck))
                   /\ regReq' = NoReq
                   /\ regCaller' = "idle"
                   /\ coordPc' = AfterPublish(RegistrationDeliveries(subsRC, registeredCheck))
              ELSE /\ regReq' = [id |-> id, opts |-> opts, checkerNil |-> checkerNil, err |-> err]
                   /\ regCaller' = "waiting"
                   /\ coordPc' = "sendError"
                   /\ UNCHANGED <<checks, deliveries>>
    /\ UNCHANGED <<maxPar, runResults, overallHealth, stop, panicked, subsRC, subsCR, subsOH,
                   ohSeen, runSemaphore, abandoned, reports, produced, sdPc, probe, hook, wg>>

\* sendError: case ch <- err, then the deferred close(ch): the caller reads the error
\* and returns it.
SendErrorDeliver ==
    /\ ~panicked
    /\ coordPc = "sendError"
    /\ regReq' = NoReq
    /\ regCaller' = "idle"
    /\ coordPc' = "select"
    /\ UNCHANGED <<maxPar, checks, runResults, overallHealth, stop, panicked, subsRC, subsCR,
                   subsOH, ohSeen, deliveries, runSemaphore, sched, abandoned, reports,
                   produced, sdPc, ops, probe, hook, wg>>

\* sendError: case <-s.stop, then the deferred close(ch): the caller reads nil from the
\* closed channel.
SendErrorStop ==
    /\ ~panicked
    /\ coordPc = "sendError"
    /\ stop
    /\ regCaller' = "gotNil"
    /\ coordPc' = "select"
    /\ UNCHANGED <<maxPar, checks, runResults, overallHealth, stop, panicked, regReq, subsRC,
                   subsCR, subsOH, ohSeen, deliveries, runSemaphore, sched, abandoned, reports,
                   produced, sdPc, ops, probe, hook, wg>>

\* The caller of Register returns the nil it read from the channel closed on it.
RegisterReturn ==
    /\ ~panicked
    /\ regCaller = "gotNil"
    /\ regCaller' = "idle"
    /\ regReq' = NoReq
    /\ UNCHANGED <<maxPar, checks, runResults, overallHealth, stop, panicked, coordPc, subsRC,
                   subsCR, subsOH, ohSeen, deliveries, runSemaphore, sched, abandoned, reports,
                   produced, sdPc, ops, probe, hook, wg>>

\* updateOverallHealth called before the Result is stored.
ResultsBeforeStore(results, r) == results

\* The map updateOverallHealth reads: the Result is stored before it is called.
ResultsAtUpdate(results, r) == StoreResult(results, r)

\* case result := <-s.results: store, updateOverallHealth, publishResult.
\* order is the iteration order of the map in s.OverallHealth().
CoordResult(r, order) ==
    /\ ~panicked
    /\ AtSelect
    /\ BagIn(r, reports)
    /\ order \in Orders(StoredIDs(ResultsAtUpdate(runResults, r)))
    /\ reports' = BagRemove(reports, r)
    /\ runResults' = StoreResult(runResults, r)
    /\ overallHealth' = OverallHealth(ResultsAtUpdate(runResults, r), order)
    /\ deliveries' = BagAddAll(deliveries,
                        OverallHealthDeliveries(subsOH, overallHealth,
                            OverallHealth(ResultsAtUpdate(runResults, r), order))
                        \cup ResultDeliveries(subsCR, r))
    /\ coordPc' = AfterPublish(OverallHealthDeliveries(subsOH, overallHealth,
                                    OverallHealth(ResultsAtUpdate(runResults, r), order))
                                \cup ResultDeliveries(subsCR, r))
    /\ UNCHANGED <<maxPar, checks, stop, panicked, regReq, regCaller, subsRC, subsCR, subsOH,
                   ohSeen, runSemaphore, sched, abandoned, produced, sdPc, ops, probe, hook, wg>>

\* The coordinator's place after a send on a reply channel that is not raced against
\* s.stop: the send completes at once when the channel has a free buffer slot or a
\* receiver waiting, and parks the coordinator otherwise.
AfterUnracedSend(ready) == IF ready THEN "select" ELSE "sendReply"

\* A request counts as an input when it changes the state of the engine.
CountInput(changes) ==
    IF changes THEN ops < MaxOps /\ ops' = ops + 1 ELSE ops' = ops

\* case replyChan := <-s.getRegisteredChecks: s.SendRegisteredChecks(replyChan)
CoordGetRegisteredChecks(ready) ==
    /\ ~panicked
    /\ AtSelect
    /\ CountInput(~ready)
    /\ coordPc' = AfterUnracedSend(ready)
    /\ UNCHANGED <<maxPar, checks, runResults, overallHealth, stop, panicked, regReq,
                   regCaller, subsRC, subsCR, subsOH, ohSeen, deliveries, runSemaphore, sched,
                   abandoned, reports, produced, sdPc, probe, hook, wg>>

\* The slice SendRegisteredChecks replies with: a copy of s.checks.
RegisteredChecksSnapshot(table) == table

\* The slice SendCheckResults builds.
FilteredResults(results, filter) ==
    {results[id] : id \in {i \in DOMAIN results : FilterAccepts(filter, results[i])}}

\* case replyChan := <-s.getCheckResults: s.SendCheckResults(replyChan)
CoordGetCheckResults(filter, ready) ==
    /\ ~panicked
    /\ AtSelect
    /\ CountInput(~ready)
    /\ coordPc' = AfterUnracedSend(ready)
    /\ UNCHANGED <<maxPar, checks, runResults, overallHealth, stop, panicked, regReq,
                   regCaller, subsRC, subsCR, subsOH, ohSeen, deliveries, runSemaphore, sched,
                   abandoned, reports, produced, sdPc, probe, hook, wg>>

\* case reply := <-s.getOverallHealth: reply <- s.overallHealth
CoordGetOverallHealth(ready) ==
    /\ ~panicked
    /\ AtSelect
    /\ CountInput(~ready)
    /\ coordPc' = AfterUnracedSend(ready)
    /\ UNCHANGED <<maxPar, checks, runResults, overallHealth, stop, panicked, regReq,
                   regCaller, subsRC, subsCR, subsOH, ohSeen, deliveries, runSemaphore, sched,
                   abandoned, reports, produced, sdPc, probe, hook, wg>>

\* A subscription that replays the table to the new channel.
ReplayDeliveriesAll(k, table) ==
    {[stream |-> "RC", ch |-> k, val |-> table[j]] : j \in 1..Len(table)}

\* The delivery goroutines SubscribeForRegisteredChecks starts for the new channel k: none.
ReplayDeliveries(k, table) == {}

\* case req := <-s.subscribeForRegisteredChecks: s.SubscribeForRegisteredChecks(req)
CoordSubscribeForRegisteredChecks(ready) ==
    /\ ~panicked
    /\ AtSelect
    /\ subsRC < MaxSubs
    /\ ops < MaxOps
    /\ ops' = ops + 1
    /\ subsRC' = subsRC + 1
    /\ deliveries' = BagAddAll(deliveries, ReplayDeliveries(subsRC + 1, checks))
    /\ coordPc' = AfterUnracedSend(ready)
    /\ UNCHANGED <<maxPar, checks, runResults, overallHealth, stop, panicked, regReq,
                   regCaller, subsCR, subsOH, ohSeen, runSemaphore, sched, abandoned, reports,
                   produced, sdPc, probe, hook, wg>>

\* case req := <-s.subscribeForCheckResults: s.SubscribeForCheckResults(req)
CoordSubscribeForCheckResults(filter, ready) ==
    /\ ~panicked
    /\ AtSelect
    /\ Len(subsCR) < MaxSubs
    /\ ops < MaxOps
    /\ ops' = ops + 1
    /\ subsCR' = Append(subsCR, filter)
    /\ coordPc' = AfterUnracedSend(ready)
    /\ UNCHANGED <<maxPar, checks, runResults, overallHealth, stop, panicked, regReq,
                   regCaller, subsRC, subsOH, ohSeen, deliveries, runSemaphore, sched,
                   abandoned, reports, produced, sdPc, probe, hook, wg>>

\* A subscription that leaves the new channel empty.
InitialBufferEmpty(status) == <<>>

\* ch := make(chan Status, 1); ch <- s.overallHealth: the content of the new channel.
InitialBuffer(status) == <<status>>

\* case reply := <-s.subscribeForOverallHealthChanges: up to the select of
\* SubscribeForOverallHealthChanges; the new channel holds the current overall health.
CoordSubscribeForOverallHealthChanges ==
    /\ ~panicked
    /\ AtSelect
    /\ Len(subsOH) < MaxSubs
    /\ ops < MaxOps
    /\ ops' = ops + 1
    /\ subsOH' = Append(subsOH, InitialBuffer(overallHealth))
    /\ ohSeen' = Append(ohSeen, [initial |-> overallHealth, first |-> <<>>, returned |-> FALSE,
                                 last |-> <<>>, repeated |-> FALSE])
    /\ coordPc' = "subReply"
    /\ UNCHANGED <<maxPar, checks, runResults, overallHealth, stop, panicked, regReq,
                   regCaller, subsRC, subsCR, deliveries, runSemaphore, sched, abandoned,
                   reports, produced, sdPc, probe, hook, wg>>

\* SubscribeForOverallHealthChanges: case <-s.stop; the caller never gets the channel.
SubReplyStop ==
    /\ ~panicked
    /\ coordPc = "subReply"
    /\ stop
    /\ coordPc' = "select"
    /\ UNCHANGED <<maxPar, checks, runResults, overallHealth, stop, panicked, regReq,
                   regCaller, subsRC, subsCR, subsOH, ohSeen, deliveries, runSemaphore, sched,
                   abandoned, reports, produced, sdPc, ops, probe, hook, wg>>

\* The caller of a snapshot or subscribe request receives from its reply channel, and
\* the coordinator parked at that send goes on.  A caller that subscribed for
\* overall-health changes now holds the new channel.
CallerReceive ==
    /\ ~panicked
    /\ coordPc \in {"sendReply", "subReply"}
    /\ coordPc' = "select"
    /\ ohSeen' = IF coordPc = "subReply"
                 THEN [ohSeen EXCEPT ![Len(ohSeen)].returned = TRUE]
                 ELSE ohSeen
    /\ UNCHANGED <<maxPar, checks, runResults, overallHealth, stop, panicked, regReq,
                   regCaller, subsRC, subsCR, subsOH, deliveries, runSemaphore, sched,
                   abandoned, reports, produced, sdPc, ops, probe, hook, wg>>

(***************************************************************************)
(* The Schedule goroutine of a registered check, and the Checker it runs.  *)
(***************************************************************************)
\* <-s.runSemaphore can proceed.
SlotAvailable(tokens) == tokens > 0

\* run(): <-s.runSemaphore, then check() up to its select: the raw check function is
\* started in a goroutine of its own and the timer is armed.
SchedAcquire(id) ==
    /\ ~panicked
    /\ sched[id] = "acquire"
    /\ SlotAvailable(runSemaphore)
    /\ runSemaphore' = runSemaphore - 1
    /\ sched' = [sched EXCEPT ![id] = "checking"]
    /\ UNCHANGED <<maxPar, checks, runResults, overallHealth, stop, panicked, coordPc, regReq,
                   regCaller, subsRC, subsCR, subsOH, ohSeen, deliveries, abandoned, reports,
                   produced, sdPc, ops, probe, hook, wg>>

\* A run that returns without putting its token back.
ReleaseNone(tokens) == tokens

\* The deferred function of run(): s.runSemaphore <- struct{}{}.
Release(tokens) == tokens + 1

\* check(): case result := <-reply (the raw function returned <<status, err>> after
\* duration, before the timer case was taken),
\* the report goroutine is started, run() returns and its deferred function puts the
\* token back.
CheckerReturn(id, status, err, duration) ==
    /\ ~panicked
    /\ sched[id] = "checking"
    /\ reports' = BagAdd(reports, CompletedResult(id, status, err, duration))
    /\ produced' = [produced EXCEPT ![id] = CompletedResult(id, status, err, duration)]
    /\ runSemaphore' = Release(runSemaphore)
    /\ sched' = [sched EXCEPT ![id] = "wait"]
    /\ UNCHANGED <<maxPar, checks, runResults, overallHealth, stop, panicked, coordPc, regReq,
                   regCaller, subsRC, subsCR, subsOH, ohSeen, deliveries, abandoned, sdPc, ops,
                   probe, hook, wg>>

\* check(): case <-timer; the raw function goes on running in its goroutine, the report
\* goroutine is started, run() returns and its deferred function puts the token back.
CheckerTimeout(id) ==
    /\ ~panicked
    /\ sched[id] = "checking"
    /\ abandoned' = [abandoned EXCEPT ![id] = @ + 1]
    /\ reports' = BagAdd(reports, TimeoutResult(id, CheckerTimeoutOf(checks, id)))
    /\ produced' = [produced EXCEPT ![id] = TimeoutResult(id, CheckerTimeoutOf(checks, id))]
    /\ runSemaphore' = Release(runSemaphore)
    /\ sched' = [sched EXCEPT ![id] = "wait"]
    /\ UNCHANGED <<maxPar, checks, runResults, overallHealth, stop, panicked, coordPc, regReq,
                   regCaller, subsRC, subsCR, subsOH, ohSeen, deliveries, sdPc, ops, probe,
                   hook, wg>>

\* A Checker that goes on reading its reply channel after the timeout and reports again.
LateReportsForwarded(r) == SetToBag({r})

\* The report goroutines started for a Result the raw function puts into the reply
\* channel after the timer case was taken: nobody receives from the channel any more.
LateReports(r) == EmptyBag

\* reply := make(chan Result, 1): the channel an invocation of the Checker makes for
\* the one Result its raw function sends.
ReplyCapacity == 1

\* A raw check function abandoned by a timeout returns <<status, err>>: its Result goes
\* into the reply channel, which nobody reads any more and which has had no send yet,
\* and its goroutine ends.
AbandonedReturn(id, status, err, duration) ==
    /\ ~panicked
    /\ abandoned[id] > 0
    /\ ReplyCapacity >= 1
    /\ abandoned' = [abandoned EXCEPT ![id] = @ - 1]
    /\ reports' = reports (+) LateReports(CompletedResult(id, status, err, duration))
    /\ UNCHANGED <<maxPar, checks, runResults, overallHealth, stop, panicked, coordPc, regReq,
                   regCaller, subsRC, subsCR, subsOH, ohSeen, deliveries, runSemaphore, sched,
                   produced, sdPc, ops, probe, hook, wg>>

\* Schedule: case <-timer: run()
SchedTimer(id) ==
    /\ ~panicked
    /\ sched[id] = "wait"
    /\ ops < MaxOps
    /\ ops' = ops + 1
    /\ sched' = [sched EXCEPT ![id] = "acquire"]
    /\ UNCHANGED <<maxPar, checks, runResults, overallHealth, stop, panicked, coordPc, regReq,
                   regCaller, subsRC, subsCR, subsOH, ohSeen, deliveries, runSemaphore,
                   abandoned, reports, produced, sdPc, probe, hook, wg>>

\* The stop case of the select of Schedule is ready.
ScheduleStopReady(closed) == closed

\* Schedule: case <-s.stop: return
SchedStop(id) ==
    /\ ~panicked
    /\ sched[id] = "wait"
    /\ ScheduleStopReady(stop)
    /\ sched' = [sched EXCEPT ![id] = "done"]
    /\ UNCHANGED <<maxPar, checks, runResults, overallHealth, stop, panicked, coordPc, regReq,
                   regCaller, subsRC, subsCR, subsOH, ohSeen, deliveries, runSemaphore,
                   abandoned, reports, produced, sdPc, ops, probe, hook, wg>>

\* A report or delivery goroutine that sends without a stop case.
StopCaseNever(closed) == FALSE

\* case <-s.stop of the select of a report or delivery goroutine is ready.
StopCaseReady(closed) == closed

\* The report goroutine of a Checker: case <-s.stop (case s.results <- result is
\* CoordResult).
ReportStop(r) ==
    /\ ~panicked
    /\ StopCaseReady(stop)
    /\ BagIn(r, reports)
    /\ reports' = BagRemove(reports, r)
    /\ UNCHANGED <<maxPar, checks, runResults, overallHealth, stop, panicked, coordPc, regReq,
                   regCaller, subsRC, subsCR, subsOH, ohSeen, deliveries, runSemaphore, sched,
                   abandoned, produced, sdPc, ops, probe, hook, wg>>

(***************************************************************************)
(* Subscriber-delivery goroutines and the subscribers.                     *)
(***************************************************************************)
\* case ch <- value, on the unbuffered channel of a registration or result subscriber:
\* the subscriber receives.
DeliverySend(d) ==
    /\ ~panicked
    /\ BagIn(d, deliveries)
    /\ d.stream # "OH"
    /\ deliveries' = BagRemove(deliveries, d)
    /\ UNCHANGED <<maxPar, checks, runResults, overallHealth, stop, panicked, coordPc, regReq,
                   regCaller, subsRC, subsCR, subsOH, ohSeen, runSemaphore, sched, abandoned,
                   reports, produced, sdPc, ops, probe, hook, wg>>

\* case ch <- status, on the 1-slot channel of an overall-health subscriber: the send
\* completes when the slot is free.
DeliverySendOverallHealth(d) ==
    /\ ~panicked
    /\ BagIn(d, deliveries)
    /\ d.stream = "OH"
    /\ subsOH[d.ch] = <<>>
    /\ subsOH' = [subsOH EXCEPT ![d.ch] = <<d.val>>]
    /\ deliveries' = BagRemove(deliveries, d)
    /\ UNCHANGED <<maxPar, checks, runResults, overallHealth, stop, panicked, coordPc, regReq,
                   regCaller, subsRC, subsCR, ohSeen, runSemaphore, sched, abandoned, reports,
                   produced, sdPc, ops, probe, hook, wg>>

\* case <-s.stop of a delivery goroutine.
DeliveryStop(d) ==
    /\ ~panicked
    /\ StopCaseReady(stop)
    /\ BagIn(d, deliveries)
    /\ deliveries' = BagRemove(deliveries, d)
    /\ UNCHANGED <<maxPar, checks, runResults, overallHealth, stop, panicked, coordPc, regReq,
                   regCaller, subsRC, subsCR, subsOH, ohSeen, runSemaphore, sched, abandoned,
                   reports, produced, sdPc, ops, probe, hook, wg>>

\* An overall-health subscriber receives the value in the slot of the channel it was
\* given.
SubscriberReceiveOverallHealth(k) ==
    /\ ~panicked
    /\ k \in 1..Len(subsOH)
    /\ ohSeen[k].returned
    /\ subsOH[k] # <<>>
    /\ subsOH' = [subsOH EXCEPT ![k] = <<>>]
    /\ ohSeen' = [ohSeen EXCEPT ![k].first = IF @ = <<>> THEN subsOH[k] ELSE @,
                                 ![k].last = subsOH[k],
                                 ![k].repeated = @ \/ ohSeen[k].last = subsOH[k]]
    /\ UNCHANGED <<maxPar, checks, runResults, overallHealth, stop, panicked, coordPc, regReq,
                   regCaller, subsRC, subsCR, deliveries, runSemaphore, sched, abandoned,
                   reports, produced, sdPc, ops, probe, hook, wg>>

(***************************************************************************)
(* TriggerShutdown, called from the goroutines in Callers.                 *)
(***************************************************************************)
\* A TriggerShutdown that closes without looking at the channel first.
TriggerShutdownNoSelect(closed) == "closing"

\* select { case <-s.stop: (return)  default: (go on to close) }
TriggerShutdownSelect(closed) == IF closed THEN "returned" ELSE "closing"

TriggerShutdownBegin(c) ==
    /\ ~panicked
    /\ sdPc[c] = "idle"
    /\ CountInput(TRUE)
    /\ sdPc' = [sdPc EXCEPT ![c] = TriggerShutdownSelect(stop)]
    /\ UNCHANGED <<maxPar, checks, runResults, overallHealth, stop, panicked, coordPc, regReq,
                   regCaller, subsRC, subsCR, subsOH, ohSeen, deliveries, runSemaphore, sched,
                   abandoned, reports, produced, probe, hook, wg>>

\* close(s.stop): closing a closed channel panics.
TriggerShutdownClose(c) ==
    /\ ~panicked
    /\ sdPc[c] = "closing"
    /\ sdPc' = [sdPc EXCEPT ![c] = "returned"]
    /\ IF stop THEN panicked' = TRUE /\ stop' = stop
               ELSE stop' = TRUE /\ panicked' = panicked
    /\ UNCHANGED <<maxPar, checks, runResults, overallHealth, coordPc, regReq, regCaller,
                   subsRC, subsCR, subsOH, ohSeen, deliveries, runSemaphore, sched, abandoned,
                   reports, produced, ops, probe, hook, wg>>

\* No call of TriggerShutdown is in progress.
NoShutdownInProgress == \A c \in Callers : sdPc[c] # "closing"

(***************************************************************************)
(* The specifications.                                                     *)
(***************************************************************************)
CoordNext ==
    \/ CoordStop
    \/ \E id \in IDs, opts \in ReqOpts, checkerNil \in BOOLEAN : CoordRegister(id, opts, checkerNil)
    \/ SendErrorDeliver
    \/ SendErrorStop
    \/ RegisterReturn
    \/ \E r \in BagToSet(reports) :
         \E order \in Orders(StoredIDs(ResultsAtUpdate(runResults, r))) : CoordResult(r, order)
    \/ \E ready \in BOOLEAN : CoordGetRegisteredChecks(ready)
    \/ \E filter \in Filters, ready \in BOOLEAN : CoordGetCheckResults(filter, ready)
    \/ \E ready \in BOOLEAN : CoordGetOverallHealth(ready)
    \/ \E ready \in BOOLEAN : CoordSubscribeForRegisteredChecks(ready)
    \/ \E filter \in Filters, ready \in BOOLEAN : CoordSubscribeForCheckResults(filter, ready)
    \/ CoordSubscribeForOverallHealthChanges
    \/ SubReplyStop
    \/ CallerReceive

WorkerNext ==
    \/ \E id \in IDs : SchedAcquire(id)
    \/ \E id \in IDs, o \in RawOutcomes, duration \in RawDurations :
         CheckerReturn(id, o[1], o[2], duration)
    \/ \E id \in IDs : CheckerTimeout(id)
    \/ \E id \in IDs, o \in RawOutcomes, duration \in RawDurations :
         AbandonedReturn(id, o[1], o[2], duration)
    \/ \E id \in IDs : SchedTimer(id)
    \/ \E id \in IDs : SchedStop(id)
    \/ \E r \in BagToSet(reports) : ReportStop(r)
    \/ \E d \in BagToSet(deliveries) : DeliverySend(d)
    \/ \E d \in BagToSet(deliveries) : DeliverySendOverallHealth(d)
    \/ \E d \in BagToSet(deliveries) : DeliveryStop(d)
    \/ \E k \in 1..MaxSubs : SubscriberReceiveOverallHealth(k)

\* Shutdown may be called from several goroutines at once.
Next ==
    \/ CoordNext
    \/ WorkerNext
    \/ \E c \in Callers : TriggerShutdownBegin(c)
    \/ \E c \in Callers : TriggerShutdownClose(c)

Spec == Init /\ [][Next]_vars

\* Shutdown is called any number of times, one call after the other.
NextSeq ==
    \/ CoordNext
    \/ WorkerNext
    \/ \E c \in Callers : NoShutdownInProgress /\ TriggerShutdownBegin(c)
    \/ \E c \in Callers : TriggerShutdownClose(c)

SpecSeq == Init /\ [][NextSeq]_vars

(***************************************************************************)
(* The application around the engine (pkg/fxapp): the liveness probe and   *)
(* the readiness hook healthCheckReadiness.                                *)
(***************************************************************************)
\* The liveness probe: it fails when the overall health is Red.
LivenessProbe(status) == IF status = Red THEN "failed" ELSE "ok"

\* A call of the liveness probe: a round trip with the coordinator for the overall
\* health (case reply := <-s.getOverallHealth).
LivenessProbeCall ==
    /\ ~panicked
    /\ AtSelect
    /\ probe' = LivenessProbe(overallHealth)
    /\ UNCHANGED <<maxPar, checks, runResults, overallHealth, stop, panicked, coordPc, regReq,
                   regCaller, subsRC, subsCR, subsOH, ohSeen, deliveries, runSemaphore, sched,
                   abandoned, reports, produced, sdPc, ops, hook, wg>>

\* healthCheckReadiness: the error after the Checker of a check returned r:
\* multierr.Combine(err, fmt.Errorf("health check failed: ..."), result.Err).
ReadinessFailure(err, r) ==
    IF r.Status # Green THEN err \o ErrCheckFailed \o r.Err ELSE err

\* The check whose Checker the hook runs next.
HookCurrent == hook.snapshot[Len(hook.statuses) + 1]

\* OnStart of healthCheckReadiness: <-registeredChecks(), a round trip with the
\* coordinator for a copy of the table.
HookStart ==
    /\ ~panicked
    /\ AtSelect
    /\ hook.pc = "idle"
    /\ ops < MaxOps
    /\ ops' = ops + 1
    /\ hook' = [pc |-> "running", snapshot |-> RegisteredChecksSnapshot(checks),
                statuses |-> <<>>, err |-> NilErr]
    /\ UNCHANGED <<maxPar, checks, runResults, overallHealth, stop, panicked, coordPc, regReq,
                   regCaller, subsRC, subsCR, subsOH, ohSeen, deliveries, runSemaphore, sched,
                   abandoned, reports, produced, sdPc, probe, wg>>

\* The hook calls the Checker of the next check of its copy, and the raw function
\* returns before the timer case is taken; the Checker starts its report goroutine.
HookCheckerReturn(status, err, duration) ==
    /\ ~panicked
    /\ hook.pc = "running"
    /\ Len(hook.statuses) < Len(hook.snapshot)
    /\ LET r == CompletedResult(HookCurrent.ID, status, err, duration) IN
         /\ reports' = BagAdd(reports, r)
         /\ hook' = [hook EXCEPT !.statuses = Append(@, r.Status),
                                  !.err = ReadinessFailure(@, r)]
    /\ UNCHANGED <<maxPar, checks, runResults, overallHealth, stop, panicked, coordPc, regReq,
                   regCaller, subsRC, subsCR, subsOH, ohSeen, deliveries, runSemaphore, sched,
                   abandoned, produced, sdPc, ops, probe, wg>>

\* The hook calls the Checker of the next check of its copy, and the timer case is taken.
HookCheckerTimeout ==
    /\ ~panicked
    /\ hook.pc = "running"
    /\ Len(hook.statuses) < Len(hook.snapshot)
    /\ LET r == TimeoutResult(HookCurrent.ID, HookCurrent.Checker.Timeout) IN
         /\ reports' = BagAdd(reports, r)
         /\ abandoned' = [abandoned EXCEPT ![HookCurrent.ID] = @ + 1]
         /\ hook' = [hook EXCEPT !.statuses = Append(@, r.Status),
                                  !.err = ReadinessFailure(@, r)]
    /\ UNCHANGED <<maxPar, checks, runResults, overallHealth, stop, panicked, coordPc, regReq,
                   regCaller, subsRC, subsCR, subsOH, ohSeen, deliveries, runSemaphore, sched,
                   produced, sdPc, ops, probe, wg>>

\* The loop of the hook is over: it returns its error, and the deferred wg.Done() runs.
HookReturn ==
    /\ ~panicked
    /\ hook.pc = "running"
    /\ Len(hook.statuses) = Len(hook.snapshot)
    /\ hook' = [hook EXCEPT !.pc = IF hook.err = NilErr THEN "started" ELSE "failed"]
    /\ wg' = wg - 1
    /\ UNCHANGED <<maxPar, checks, runResults, overallHealth, stop, panicked, coordPc, regReq,
                   regCaller, subsRC, subsCR, subsOH, ohSeen, deliveries, runSemaphore, sched,
                   abandoned, reports, produced, sdPc, ops, probe>>

\* App.Run after the start hooks have run: the application releases the count its
\* ReadinessWaitGroup was created with.  It does so after a start without error; what it
\* does with the count after a failed start is left open, and the step may or may not
\* be taken then.
AppRun ==
    /\ ~panicked
    /\ hook.pc \in {"started", "failed"}
    /\ wg = 1
    /\ wg' = wg - 1
    /\ UNCHANGED <<maxPar, checks, runResults, overallHealth, stop, panicked, coordPc, regReq,
                   regCaller, subsRC, subsCR, subsOH, ohSeen, deliveries, runSemaphore, sched,
                   abandoned, reports, produced, sdPc, ops, probe, hook>>

\* ReadinessWaitGroup.Ready() delivers: the count is 0.
Ready == wg = 0

\* The engine with a liveness probe that is called at any time.
ProbeNext ==
    \/ Next
    \/ LivenessProbeCall

ProbeSpec == Init /\ [][ProbeNext]_vars

\* The engine inside an application that is started.
StartNext ==
    \/ Next
    \/ HookStart
    \/ \E o \in RawOutcomes, duration \in RawDurations : HookCheckerReturn(o[1], o[2], duration)
    \/ HookCheckerTimeout
    \/ HookReturn
    \/ AppRun

StartSpec == Init /\ [][StartNext]_vars

(***************************************************************************)
(* Fairness.  A goroutine that can run does run: the timer of a Checker    *)
(* fires, a token in the semaphore is taken by a waiting scheduler, a      *)
(* select with a closed stop channel among its ready cases takes it in the *)
(* end (Go picks among the ready cases at random), and the coordinator     *)
(* and the report and delivery goroutines likewise.  Shutdown is called    *)
(* one call after the other.  Nothing is assumed of the callers and the    *)
(* subscribers.                                                            *)
(***************************************************************************)
Fairness ==
    /\ \A id \in IDs : WF_vars(SchedAcquire(id))
    /\ \A id \in IDs : WF_vars(CheckerTimeout(id))
    /\ \A id \in IDs : SF_vars(SchedStop(id))
    /\ \A c \in Callers : WF_vars(TriggerShutdownClose(c))
    /\ SF_vars(CoordStop)
    /\ WF_vars(SendErrorStop)
    /\ WF_vars(SubReplyStop)
    /\ WF_vars(\E r \in BagToSet(reports) : ReportStop(r))
    /\ WF_vars(\E d \in BagToSet(deliveries) : DeliveryStop(d))

FairSpec == Init /\ [][NextSeq]_vars /\ Fairness

(***************************************************************************)
(* Fairness of a running engine.  A scheduler waiting at the semaphore     *)
(* takes a token that stays there, the timers of a Checker and of a        *)
(* Schedule loop fire, the coordinator at its select takes a Result that   *)
(* stays offered to it, a caller of Register receives its error, and,      *)
(* while the engine is not shut down, a caller in a round trip receives    *)
(* its reply.  Weak fairness is all that is asked of the Go scheduler.     *)
(* Shutdown may be called at any time, from several goroutines.            *)
(***************************************************************************)
RunFairness ==
    /\ \A id \in IDs : WF_vars(SchedAcquire(id))
    /\ \A id \in IDs : WF_vars(CheckerTimeout(id))
    /\ \A id \in IDs : WF_vars(SchedTimer(id))
    /\ WF_vars(\E r \in BagToSet(reports) :
                   \E order \in Orders(StoredIDs(ResultsAtUpdate(runResults, r))) :
                       CoordResult(r, order))
    /\ WF_vars(SendErrorDeliver)
    /\ WF_vars(~stop /\ CallerReceive)

RunSpec == Init /\ [][Next]_vars /\ RunFairness

(***************************************************************************)
(* Vocabulary of the properties.                                           *)
(***************************************************************************)
\* The severity aggregate of a result store, stated without a loop.
Severity(results) ==
    IF \E id \in DOMAIN results : results[id].Status = Red THEN Red
    ELSE IF \E id \in DOMAIN results : results[id].Status = Yellow THEN Yellow
    ELSE Green

\* The IDs of the registered-check table.
TableIDs == {checks[k].ID : k \in 1..Len(checks)}

\* The checks that have a scheduled run in progress: their scheduler has taken a token
\* and is inside its Checker.
ScheduledRuns == {id \in IDs : sched[id] = "checking"}

\* The readiness hook is inside the Checker of check id, waiting for its raw function.
HookExecuting(id) ==
    /\ hook.pc = "running"
    /\ Len(hook.statuses) < Len(hook.snapshot)
    /\ HookCurrent.ID = id

\* The goroutines in which the raw check function of check id is running: the one of the
\* execution its scheduler waits for, the one of the execution the readiness hook waits
\* for, and those abandoned by a timeout.
RawExecutions(id) ==
    abandoned[id] + (IF sched[id] = "checking" THEN 1 ELSE 0)
                  + (IF HookExecuting(id) THEN 1 ELSE 0)

\* The checks that are executing: their raw check function is running in some goroutine.
Executing == {id \in IDs : RawExecutions(id) > 0}

\* The Schedule goroutines that were started and have not returned.
ActiveSchedulers == {id \in IDs : sched[id] \in {"acquire", "checking", "wait"}}

\* The options of a request pass ValidateOpts after defaulting.
ValidOpts(opts) ==
    /\ (IF opts.RunInterval = 0 THEN DefaultRunInterval ELSE opts.RunInterval) >= MinRunInterval
    /\ (IF opts.Timeout = 0 THEN DefaultTimeout ELSE opts.Timeout) <= MaxTimeout

\* C1: the overall health computed from the result store is Red iff a stored Result is
\* Red, else Yellow iff one is Yellow, else Green (also for an empty store), whatever
\* the iteration order of the map.
C1_OverallHealthIsSeverity ==
    \A order \in Orders(StoredIDs(runResults)) :
        OverallHealth(runResults, order) = Severity(runResults)

\* C1 witness: the store holds a Red and a Yellow Result, which the loop meets in
\* either order.
C1_Witness ==
    \E a, b \in DOMAIN runResults : runResults[a].Status = Red /\ runResults[b].Status = Yellow

\* C2: whenever the coordinator is between two iterations of its loop (or parked in a
\* handler, or has returned) the published overall health is the severity aggregate
\* of the result store: Green while the store is empty, recomputed with every Result.
C2_PublishedIsAggregate == overallHealth = Severity(runResults)

\* C2 witness: a Result was processed for each check and the published value is Yellow.
C2_Witness == DOMAIN runResults = IDs /\ overallHealth = Yellow

\* C3: at most MaxCheckParallelism checks are executing at any time, whichever checks
\* they are: with MaxCheckParallelism = 1 the execution of a second check does not
\* start until the execution of the first has ended.
C3_ParallelismBounded == Cardinality(Executing) <= maxPar

\* C4: no two entries of the registered-check table have the same ID.
C4_UniqueIDs ==
    \A i, j \in 1..Len(checks) : i # j => checks[i].ID # checks[j].ID

\* C4 witness: two checks are in the table and a request for an ID in it is being rejected.
C4_Witness ==
    /\ Len(checks) = 2
    /\ coordPc = "sendError"
    /\ regReq.id \in TableIDs

\* C5 as stated: a request whose ID is in the table fails with the duplicate-check
\* error whatever its options and checker function are.
C5_Original ==
    (coordPc = "sendError" /\ regReq.id \in TableIDs) => regReq.err = ErrAlreadyRegistered

\* C5 amended: a Register request whose ID is in the table is rejected and the table does
\* not grow; the error is the duplicate-check error when the checker is not nil and the
\* options are valid, the nil-checker error when the checker is nil, and the
\* invalid-options error otherwise.
C5_DuplicateRejected ==
    [][\A id \in IDs, opts \in ReqOpts, checkerNil \in BOOLEAN :
          (CoordRegister(id, opts, checkerNil) /\ id \in TableIDs) =>
              /\ checks' = checks
              /\ coordPc' = "sendError"
              /\ regReq'.err # NilErr
              /\ (~checkerNil /\ ValidOpts(opts)) => regReq'.err = ErrAlreadyRegistered
              /\ checkerNil => regReq'.err = <<ToString(id)>> \o ErrNilChecker
              /\ (~checkerNil /\ ~ValidOpts(opts)) => Head(regReq'.err) = Head(ErrInvalidOpts)
      ]_vars

\* C5 witness: a request with a checker and valid options for an ID in the table is
\* being answered with the duplicate-check error.
C5_Witness ==
    /\ coordPc = "sendError"
    /\ regReq.id \in TableIDs
    /\ ~regReq.checkerNil
    /\ ValidOpts(regReq.opts)
    /\ regReq.err = ErrAlreadyRegistered

\* C6: the caller of a rejected Register never reads nil from its reply channel.
C6_RejectedNeverReadsNil == regCaller = "gotNil" => regReq.err = NilErr

\* C7: after Shutdown no goroutine is parked at a send it can only leave when a receiver
\* turns up: every parked send has the stop case to leave by.
C7_EverySendRacesStop == stop => coordPc # "sendReply"

\* C8: once Shutdown was called, under fair scheduling every scheduler goroutine
\* terminates, whether it was waiting on its timer, waiting for a slot or in the middle
\* of a run, and nothing panics.
C8_Original == [](~panicked) /\ (stop ~> (ActiveSchedulers = {}))

\* C9: calls of Shutdown made one after the other: a call that gets to close the stop
\* signal finds it open and closes it without a panic; once the signal is closed it
\* stays closed, no later call gets to close it again, and nothing panics.
C9_ShutdownIdempotent ==
    [][/\ \A c \in Callers :
              (sdPc[c] = "closing" /\ sdPc'[c] # "closing") => (~stop /\ stop' /\ ~panicked')
       /\ stop => /\ stop'
                  /\ ~panicked'
                  /\ \A c \in Callers : sdPc'[c] # "closing"
                  /\ (sdPc' # sdPc => coordState' = coordState)
      ]_vars

\* C9 witness: every caller has called Shutdown and returned, and the signal is closed.
C9_Witness == stop /\ ~panicked /\ \A c \in Callers : sdPc[c] = "returned"

\* C10: once the coordinator loop has returned on the stop signal it stays returned, and
\* the check table, the result store, the overall health and the subscription sets
\* never change again.
C10_StoppedIsFinal ==
    [][coordPc = "done" =>
          /\ coordPc' = "done"
          /\ checks' = checks
          /\ runResults' = runResults
          /\ overallHealth' = overallHealth
          /\ subsRC' = subsRC
          /\ subsCR' = subsCR
          /\ Len(subsOH') = Len(subsOH)
      ]_vars

\* C10 witness: the coordinator has returned while a Result is still waiting to be
\* reported to it.
C10_Witness == coordPc = "done" /\ reports # EmptyBag

\* The delivery goroutine that sends status v on overall-health channel k.
OverallHealthDelivery(k, v) == [stream |-> "OH", ch |-> k, val |-> v]

\* The delivery goroutine that sends the registered check on registration channel k.
RegistrationDelivery(k, check) == [stream |-> "RC", ch |-> k, val |-> check]

\* The Results that exist: waiting to be reported, stored, or on their way to a subscriber.
ProducedResults ==
    BagToSet(reports) \cup {runResults[id] : id \in DOMAIN runResults}
        \cup {d.val : d \in {e \in BagToSet(deliveries) : e.stream = "CR"}}

\* The entry of the registered-check table for an ID in it.
TableEntry(id) == checks[CHOOSE k \in 1..Len(checks) : checks[k].ID = id]

\* C11: the first value received on a channel of SubscribeForOverallHealthChanges is the
\* overall health that was current when the coordinator processed the subscription, and
\* until it is received it sits in the channel, whether or not a Result is processed.
C11_FirstValueIsSubscriptionStatus ==
    \A k \in 1..Len(subsOH) :
        /\ ohSeen[k].first # <<>> => ohSeen[k].first = <<ohSeen[k].initial>>
        /\ ohSeen[k].first = <<>> => subsOH[k] = <<ohSeen[k].initial>>

\* C11 witness: a subscriber has received its first value and the overall health has
\* changed since it subscribed.
C11_Witness ==
    \E k \in 1..Len(subsOH) : ohSeen[k].first # <<>> /\ overallHealth # ohSeen[k].initial

\* C12: when the coordinator processes a Result, it starts one delivery of the new
\* overall health for each overall-health subscriber if the recomputed value differs
\* from the published one, and no overall-health delivery if it does not.
C12_NotifiedIffChanged ==
    [][\A r \in BagToSet(reports) :
          \A order \in Orders(StoredIDs(StoreResult(runResults, r))) :
              CoordResult(r, order) =>
                  \A k \in 1..MaxSubs, v \in Status :
                      CopiesIn(OverallHealthDelivery(k, v), deliveries') =
                          CopiesIn(OverallHealthDelivery(k, v), deliveries)
                          + (IF overallHealth' # overallHealth /\ k <= Len(subsOH)
                                /\ v = overallHealth'
                             THEN 1 ELSE 0)
      ]_vars

\* C12 witness: the overall health has left Green and its delivery to a subscriber is
\* pending.
C12_Witness ==
    /\ overallHealth # Green
    /\ \E k \in 1..Len(subsOH) :
           CopiesIn(OverallHealthDelivery(k, overallHealth), deliveries) = 1

\* C13: every Result a Checker produced has a nil Err if and only if its Status is Green.
C13_ErrNilIffGreen ==
    \A r \in ProducedResults : (r.Err = NilErr) <=> (r.Status = Green)

\* C13 witness: there are a Green Result, a Yellow Result of a raw check that returned no
\* error, and a timeout Result.
C13_Witness ==
    \E g, y, x \in ProducedResults :
        /\ g.Status = Green /\ g.Err = NilErr
        /\ y.Status = Yellow /\ y.Err = ErrCheckFailed
        /\ x.Status = Red /\ x.Err = ErrCheckFailed \o ErrTimeout

\* C14: when the timeout branch of a Checker is taken, its Result has the ID of the check,
\* Status Red, the health-check failure that carries the timeout error as its Err, and a
\* Duration equal to the Timeout of the registered check.
C14_TimeoutResult ==
    [][\A id \in IDs :
          CheckerTimeout(id) =>
              reports' = reports (+) SetToBag({[ID |-> id, Status |-> Red,
                                                Err |-> ErrCheckFailed \o ErrTimeout,
                                                Duration |-> TableEntry(id).Timeout]})
      ]_vars

\* C14 witness: a timeout Result of a check registered with a Timeout of its own (not the
\* default) waits to be reported while the raw function is still running.
C14_Witness ==
    \E r \in BagToSet(reports) :
        /\ r.Err = ErrCheckFailed \o ErrTimeout
        /\ r.Duration # DefaultTimeout
        /\ abandoned[r.ID] > 0

\* C15: the scheduler started by a successful registration goes to its first run at
\* once; with MaxCheckParallelism >= 1 and the engine not shut down a Result for the
\* check is stored in the end; after each run the scheduler waits for its interval
\* timer, which sends it into the next run, and it returns only on the stop signal.
C15_ScheduledForever ==
    /\ [][\A id \in IDs :
              /\ (sched[id] = "none" /\ sched'[id] # "none") => sched'[id] = "acquire"
              /\ (sched[id] = "wait" /\ sched'[id] # "wait") =>
                     (sched'[id] = "acquire" \/ (stop /\ sched'[id] = "done"))
              /\ (sched[id] # "done" /\ sched'[id] = "done") => stop
         ]_vars
    /\ \A id \in IDs :
           (id \in TableIDs /\ maxPar >= 1) ~> (id \in DOMAIN runResults \/ stop)
    /\ \A id \in IDs :
           (sched[id] = "wait" /\ maxPar >= 1) ~>
               (sched[id] = "acquire" \/ stop \/ ops = MaxOps)

\* C15 witness: the first Result of a check is stored and the check is being executed
\* again, with the engine running.
C15_Witness ==
    \E id \in IDs : id \in DOMAIN runResults /\ sched[id] = "checking" /\ ~stop

\* The error list err holds the error e.
Contains(err, e) == \E i \in 1..Len(err) : <<err[i]>> = e

\* C16: processing a Result overwrites the entry of the store for its ID, adds none but
\* that one and leaves every other entry alone, so that a CheckResults() snapshot holds
\* exactly one Result for each ID that has one: the one processed last.
C16_LatestResultPerID ==
    [][\A r \in BagToSet(reports) :
          \A order \in Orders(DOMAIN runResults \cup {r.ID}) :
              CoordResult(r, order) =>
                  /\ DOMAIN runResults' = DOMAIN runResults \cup {r.ID}
                  /\ runResults'[r.ID] = r
                  /\ \A id \in DOMAIN runResults \ {r.ID} : runResults'[id] = runResults[id]
                  /\ \A id \in DOMAIN runResults' :
                         {x \in FilteredResults(runResults', "nil") : x.ID = id}
                             = {runResults'[id]}
      ]_vars

\* C16 witness: a Result of a check is on its way to a subscriber and the store already
\* holds another Result for that check, which overwrote it.
C16_Witness ==
    \E d \in BagToSet(deliveries) :
        /\ d.stream = "CR"
        /\ d.val.ID \in DOMAIN runResults
        /\ runResults[d.val.ID] # d.val

\* C17: when the caller of Register has read nil from its reply channel, a
\* RegisteredChecks() snapshot holds the check it asked to register.
C17_ReturnedNilIsRegistered ==
    regCaller = "gotNil" => IsRegistered(RegisteredChecksSnapshot(checks), regReq.id)

\* C18: a successful Register appends one RegisteredCheck, with a timeout-wrapped Checker
\* that is not nil, to the table, starts the scheduler of that check and no other, and
\* starts one delivery of the new entry for each registration subscriber there is, and
\* no other delivery.
C18_SuccessfulRegister ==
    [][\A id \in IDs, opts \in ReqOpts, checkerNil \in BOOLEAN :
          (CoordRegister(id, opts, checkerNil)
              /\ RegisterErr(checks, id, opts, checkerNil) = NilErr) =>
              LET new == checks'[Len(checks')] IN
              /\ Len(checks') = Len(checks) + 1
              /\ SubSeq(checks', 1, Len(checks)) = checks
              /\ new.ID = id
              /\ new.Checker # NilChecker
              /\ new.Checker = WithTimeout(id, new.Timeout)
              /\ sched[id] = "none"
              /\ sched' = [sched EXCEPT ![id] = "acquire"]
              /\ \A k \in 1..MaxSubs :
                     CopiesIn(RegistrationDelivery(k, new), deliveries') =
                         CopiesIn(RegistrationDelivery(k, new), deliveries)
                         + (IF k <= subsRC THEN 1 ELSE 0)
              /\ \A d \in BagToSet(deliveries) \cup BagToSet(deliveries') :
                     (d.stream # "RC" \/ d.val # new) =>
                         CopiesIn(d, deliveries') = CopiesIn(d, deliveries)
      ]_vars

\* C18 witness: the check registered last is in the table, its scheduler is about to
\* make its first run and its registration is on its way to a subscriber.
C18_Witness ==
    /\ Len(checks) >= 1
    /\ sched[checks[Len(checks)].ID] = "acquire"
    /\ \E k \in 1..subsRC :
           CopiesIn(RegistrationDelivery(k, checks[Len(checks)]), deliveries) = 1

\* C19 as stated: every request whose RunInterval is, after defaulting, below the minimum
\* is rejected with the run-interval-too-frequent error.
C19_Original ==
    (coordPc = "sendError" /\ ApplyDefaultOpts(regReq.opts).RunInterval < MinRunInterval)
        => Contains(regReq.err, ErrRunIntervalTooFrequent)

\* C19 amended: a request whose RunInterval is, after defaulting, below the minimum is
\* rejected: the table, the schedulers and the deliveries stay as they are; the error is
\* the invalid-options error holding the run-interval-too-frequent error when the checker
\* is not nil, and the nil-checker error when it is nil.
C19_IntervalTooFrequentRejected ==
    [][\A id \in IDs, opts \in ReqOpts, checkerNil \in BOOLEAN :
          (CoordRegister(id, opts, checkerNil)
              /\ ApplyDefaultOpts(opts).RunInterval < MinRunInterval) =>
              /\ checks' = checks
              /\ sched' = sched
              /\ deliveries' = deliveries
              /\ coordPc' = "sendError"
              /\ ~checkerNil =>
                     /\ Head(regReq'.err) = Head(ErrInvalidOpts)
                     /\ Contains(regReq'.err, ErrRunIntervalTooFrequent)
              /\ checkerNil => regReq'.err = <<ToString(id)>> \o ErrNilChecker
      ]_vars

\* C19 witness: a request with a checker, for an ID that is not in the table, is being
\* rejected with the run-interval-too-frequent error.
C19_Witness ==
    /\ coordPc = "sendError"
    /\ ~regReq.checkerNil
    /\ regReq.id \notin TableIDs
    /\ ApplyDefaultOpts(regReq.opts).RunInterval < MinRunInterval
    /\ Contains(regReq.err, ErrRunIntervalTooFrequent)

\* C20 as stated: every request whose Timeout exceeds the maximum is rejected with the
\* timeout-too-high error, together with the run-interval-too-frequent error when the
\* RunInterval is below the minimum too.
C20_Original ==
    (coordPc = "sendError" /\ ApplyDefaultOpts(regReq.opts).Timeout > MaxTimeout) =>
        /\ Contains(regReq.err, ErrRunTimeoutTooHigh)
        /\ ApplyDefaultOpts(regReq.opts).RunInterval < MinRunInterval
               => Contains(regReq.err, ErrRunIntervalTooFrequent)

\* C20 amended: a request whose Timeout exceeds the maximum is rejected and the table
\* stays as it is; when the checker is not nil the one error returned is the
\* invalid-options error holding the timeout-too-high error, after the
\* run-interval-too-frequent error when the RunInterval is below the minimum too; when
\* the checker is nil it is the nil-checker error.
C20_TimeoutTooHighRejected ==
    [][\A id \in IDs, opts \in ReqOpts, checkerNil \in BOOLEAN :
          (CoordRegister(id, opts, checkerNil)
              /\ ApplyDefaultOpts(opts).Timeout > MaxTimeout) =>
              /\ checks' = checks
              /\ coordPc' = "sendError"
              /\ (~checkerNil /\ ApplyDefaultOpts(opts).RunInterval >= MinRunInterval) =>
                     regReq'.err = ErrInvalidOpts \o ErrRunTimeoutTooHigh
              /\ (~checkerNil /\ ApplyDefaultOpts(opts).RunInterval < MinRunInterval) =>
                     regReq'.err = ErrInvalidOpts \o ErrRunIntervalTooFrequent
                                       \o ErrRunTimeoutTooHigh
              /\ checkerNil => regReq'.err = <<ToString(id)>> \o ErrNilChecker
      ]_vars

\* C20 witness: a request with a checker is being rejected with one error that holds both
\* the run-interval-too-frequent and the timeout-too-high error.
C20_Witness ==
    /\ coordPc = "sendError"
    /\ ~regReq.checkerNil
    /\ regReq.err = ErrInvalidOpts \o ErrRunIntervalTooFrequent \o ErrRunTimeoutTooHigh

\* C21: a Register request with a nil checker function is rejected with the nil-checker
\* error that carries the check ID, whatever its options are and whether or not the ID is
\* in the table; the table stays as it is, no scheduler is started and nothing is
\* published.
C21_NilCheckerRejected ==
    [][\A id \in IDs, opts \in ReqOpts :
          CoordRegister(id, opts, TRUE) =>
              /\ regReq'.err = <<ToString(id)>> \o ErrNilChecker
              /\ coordPc' = "sendError"
              /\ regCaller' = "waiting"
              /\ checks' = checks
              /\ sched' = sched
              /\ deliveries' = deliveries
      ]_vars

\* C21 witness: a request with a nil checker function and options that are invalid too,
\* for an ID that is not in the table, is being rejected with the nil-checker error.
C21_Witness ==
    /\ coordPc = "sendError"
    /\ regReq.checkerNil
    /\ ~ValidOpts(regReq.opts)
    /\ regReq.id \notin TableIDs
    /\ regReq.err = <<ToString(regReq.id)>> \o ErrNilChecker
    /\ sched[regReq.id] = "none"

\* C22: a delivery of a registered check to a registration channel is started only in
\* the step in which the coordinator appends that check to the table, once, and only
\* for a channel subscribed before that step: a subscription starts no delivery of the
\* checks that are in the table already.  And every step that appends a check starts
\* one delivery of it for every channel subscribed so far.
C22_OfferedFromSubscriptionOn ==
    [][/\ \A d \in BagToSet(deliveries') :
              (d.stream = "RC" /\ CopiesIn(d, deliveries') > CopiesIn(d, deliveries)) =>
                  /\ checks' = Append(checks, d.val)
                  /\ d.ch \in 1..subsRC
                  /\ CopiesIn(d, deliveries') = CopiesIn(d, deliveries) + 1
       /\ Len(checks') > Len(checks) =>
              \A k \in 1..subsRC :
                  CopiesIn(RegistrationDelivery(k, checks'[Len(checks')]), deliveries') =
                      CopiesIn(RegistrationDelivery(k, checks'[Len(checks')]), deliveries) + 1
      ]_vars

\* C22 witness: the coordinator has just processed the first registration subscription,
\* after a check was registered, and no delivery to a registration channel is pending.
C22_Witness ==
    /\ ops = 2
    /\ Len(checks) = 1
    /\ subsRC = 1
    /\ coordPc = "sendReply"
    /\ \A d \in BagToSet(deliveries) : d.stream # "RC"

\* The delivery goroutine that sends Result r on result channel k.
CheckResultDelivery(k, r) == [stream |-> "CR", ch |-> k, val |-> r]

\* C23: when the coordinator processes a Result it starts, for every result subscriber
\* there is, one delivery of that Result if the subscriber's predicate accepts it (a nil
\* predicate accepts every Result) and none if it does not; and a delivery to a result
\* channel is started in no other step, so none for a Result processed before the
\* subscription.
C23_OfferedIffAccepted ==
    [][/\ \A r \in BagToSet(reports) :
              \A order \in Orders(StoredIDs(StoreResult(runResults, r))) :
                  CoordResult(r, order) =>
                      \A k \in 1..MaxSubs :
                          CopiesIn(CheckResultDelivery(k, r), deliveries') =
                              CopiesIn(CheckResultDelivery(k, r), deliveries)
                              + (IF k <= Len(subsCR)
                                    /\ (subsCR[k] = "nil" \/ (subsCR[k] = "red" /\ r.Status = Red))
                                 THEN 1 ELSE 0)
       /\ \A d \in BagToSet(deliveries') :
              (d.stream = "CR" /\ CopiesIn(d, deliveries') > CopiesIn(d, deliveries)) =>
                  /\ BagIn(d.val, reports)
                  /\ reports' = reports (-) SetToBag({d.val})
                  /\ runResults'[d.val.ID] = d.val
                  /\ d.ch \in 1..Len(subsCR)
      ]_vars

\* C23 witness: a Result that is not Red was processed with two subscribers, one with a
\* nil predicate and one that asks for Red Results: the Result is on its way to the
\* first and not to the second.
C23_Witness ==
    /\ subsCR = <<"nil", "red">>
    /\ \E id \in DOMAIN runResults :
           /\ runResults[id].Status = Yellow
           /\ CopiesIn(CheckResultDelivery(1, runResults[id]), deliveries) = 1
           /\ CopiesIn(CheckResultDelivery(2, runResults[id]), deliveries) = 0

\* The coordinator is in a round trip with a caller: parked at a reply send.
InCallerRoundTrip == coordPc \in {"sendError", "sendReply", "subReply"}

\* C24: whatever deliveries are pending because their subscribers do not receive, the
\* coordinator, unless it is in a round trip with a caller or has returned, can take
\* every Result that is reported to it and, while inputs remain, a Register request;
\* every pending delivery to a registration or result channel can be made as soon as
\* its own subscriber receives, and every pending delivery to an overall-health channel
\* as soon as the slot of its own channel is free.
C24_SlowSubscriberBlocksNobody ==
    ~panicked =>
        /\ (~InCallerRoundTrip /\ coordPc # "done") =>
               /\ \A r \in BagToSet(reports) :
                      ENABLED (\E order \in Orders(StoredIDs(StoreResult(runResults, r))) :
                                   CoordResult(r, order))
               /\ (ops < MaxOps /\ regCaller = "idle") =>
                      \A id \in IDs : ENABLED CoordRegister(id, [Timeout |-> 0, RunInterval |-> 0], FALSE)
        /\ \A d \in BagToSet(deliveries) :
               /\ d.stream # "OH" => ENABLED DeliverySend(d)
               /\ (d.stream = "OH" /\ subsOH[d.ch] = <<>>) => ENABLED DeliverySendOverallHealth(d)

\* C24 witness: the Results of two checks were processed one after the other and both
\* are still on their way to the same result subscriber, which has received neither.
C24_Witness ==
    /\ ~stop
    /\ DOMAIN runResults = IDs
    /\ \A id \in IDs : CopiesIn(CheckResultDelivery(1, runResults[id]), deliveries) >= 1
    /\ runResults[1] # runResults[2]

\* A Result with status Red is stored.
RedStored == \E id \in DOMAIN runResults : runResults[id].Status = Red

\* C25: a call of the liveness probe fails if and only if the overall health is Red, which
\* is the case if and only if a Red Result is stored: it succeeds while no check is
\* registered, and while every stored Result is Green or Yellow.
C25_LivenessFailsIffRed ==
    [][LivenessProbeCall =>
          /\ probe' \in {"ok", "failed"}
          /\ (probe' = "failed") <=> (overallHealth = Red)
          /\ (probe' = "failed") <=> RedStored
          /\ checks = <<>> => probe' = "ok"
      ]_vars

\* C25 witness: the probe has failed, with a Red and a Yellow Result in the store.
C25_Witness ==
    /\ probe = "failed"
    /\ RedStored
    /\ \E id \in DOMAIN runResults : runResults[id].Status = Yellow

\* The result-report goroutines of check id that have not ended.
PendingReports(id) == {r \in BagToSet(reports) : r.ID = id}

\* C27: while the engine runs, once every Result reported for a check has been processed,
\* the store holds the Result of the latest run of the check's scheduler: Results of
\* successive runs, each of which ends before the next begins, are never processed in
\* the opposite order.
C27_ProcessedInExecutionOrder ==
    \A id \in IDs :
        (~stop /\ ~panicked /\ produced[id] # <<>> /\ PendingReports(id) = {}) =>
            (id \in DOMAIN runResults /\ runResults[id] = produced[id])

\* C28: a Checker invocation that returns starts one report goroutine, with one Result:
\* the Result built from what the raw function returned when that was received before
\* the timer case was taken, and the timeout Result when the timer case was taken; the
\* coordinator receives from a report goroutine once, and that ends it.  When the raw
\* function returns after the timer case was taken, no report goroutine is started, and
\* the store, the overall health and the deliveries stay as they are.
C28_OneResultPerInvocation ==
    [][/\ \A id \in IDs, o \in RawOutcomes, duration \in RawDurations :
              /\ CheckerReturn(id, o[1], o[2], duration) =>
                     /\ reports' = reports (+) SetToBag({[ID |-> id, Status |-> o[1],
                                                          Err |-> healthCheckFailure(o[1], o[2]),
                                                          Duration |-> duration]})
                     /\ abandoned' = abandoned
              /\ AbandonedReturn(id, o[1], o[2], duration) =>
                     /\ reports' = reports
                     /\ runResults' = runResults
                     /\ overallHealth' = overallHealth
                     /\ deliveries' = deliveries
       /\ \A id \in IDs :
              CheckerTimeout(id) =>
                  /\ reports' = reports (+) SetToBag({TimeoutResult(id, TableEntry(id).Timeout)})
                  /\ abandoned' = [abandoned EXCEPT ![id] = @ + 1]
       /\ \A r \in BagToSet(reports) :
              \A order \in Orders(StoredIDs(StoreResult(runResults, r))) :
                  CoordResult(r, order) => reports' (+) SetToBag({r}) = reports
      ]_vars

\* C28 witness: the timeout Result of a check is stored, nothing is left to report, and
\* the raw function abandoned by the timeout has returned since.
C28_Witness ==
    /\ ~stop
    /\ reports = EmptyBag
    /\ \E id \in DOMAIN runResults :
           /\ runResults[id].Err = ErrCheckFailed \o ErrTimeout
           /\ produced[id] = runResults[id]
           /\ abandoned[id] = 0

\* C29: the tokens in the semaphore and the scheduled runs in progress add up to
\* MaxCheckParallelism in every state; a run takes one token when it begins and puts one
\* back when it ends, by the raw function's return or by the timeout, into a channel that
\* has a free slot for it; and no other step changes the number of tokens.
C29_SlotsConserved ==
    /\ [](runSemaphore + Cardinality(ScheduledRuns) = maxPar)
    /\ [][/\ \A id \in IDs :
               /\ (sched[id] = "checking" /\ sched'[id] # "checking") =>
                      /\ runSemaphore < maxPar
                      /\ runSemaphore' = runSemaphore + 1
               /\ (sched[id] # "checking" /\ sched'[id] = "checking") =>
                      runSemaphore' = runSemaphore - 1
          /\ runSemaphore' # runSemaphore => sched' # sched
         ]_vars

\* C29 witness: with MaxCheckParallelism = 1, the run of one check has ended by its
\* timeout and the token it put back is held by the run of another check.
C29_Witness ==
    /\ maxPar = 1
    /\ runSemaphore = 0
    /\ \E a, b \in IDs :
           /\ sched[a] = "checking"
           /\ sched[b] = "wait"
           /\ abandoned[b] > 0

\* The overall-health deliveries to channel k that have not ended.
PendingOverallHealth(k) ==
    {d \in BagToSet(deliveries) : d.stream = "OH" /\ d.ch = k}

\* C30: an overall-health subscriber never receives the same status twice in a row, and
\* while the engine runs, once it has received everything that was sent to it on the
\* channel it was given, the last status it received is the current overall health.
C30_ReceivedInPublishedOrder ==
    \A k \in 1..Len(subsOH) :
        /\ ~ohSeen[k].repeated
        /\ (~stop /\ ~panicked /\ ohSeen[k].returned /\ subsOH[k] = <<>>
               /\ PendingOverallHealth(k) = {}) =>
               ohSeen[k].last = <<overallHealth>>

\* C31: with Shutdown called from several goroutines at once, the stop signal is closed
\* once and no call panics on closing a channel that is already closed.
C31_ConcurrentShutdownSafe == ~panicked

\* C32: once the stop signal is closed no scheduler starts an execution of its check: a
\* scheduler that waits on its timer, waits for a slot or was just spawned does not
\* invoke the Checker again.
C32_NoExecutionAfterStop ==
    [][stop => \A id \in IDs : (sched[id] # "checking" => sched'[id] # "checking")]_vars

\* C33: the raw check function of a check never runs in two goroutines at the same time:
\* no execution of a check starts while an earlier one of the same check is running.
C33_OneExecutionPerCheck == \A id \in IDs : RawExecutions(id) <= 1

\* C34: once the stop signal is closed, the pending report goroutines and the pending
\* delivery goroutines all terminate, with no help from the coordinator or from a
\* subscriber; and a raw check function abandoned by a timeout can always return and
\* end its goroutine, since the send on its reply channel does not block.
C34_GoroutinesTerminate ==
    /\ stop ~> (reports = EmptyBag /\ deliveries = EmptyBag)
    /\ [](\A id \in IDs :
              abandoned[id] > 0 =>
                  ENABLED (\E o \in RawOutcomes, duration \in RawDurations :
                               AbandonedReturn(id, o[1], o[2], duration)))

\* C34 witness: the stop signal is closed and the coordinator has returned while a report
\* goroutine and a delivery goroutine are pending and an abandoned raw function runs.
C34_Witness ==
    /\ stop
    /\ coordPc = "done"
    /\ reports # EmptyBag
    /\ deliveries # EmptyBag
    /\ \E id \in IDs : abandoned[id] > 0

\* The state service.run owns: the check table, the result map, the three subscription
\* sets (the channels in them, not what the channels hold) and the overall health.
OwnedState == <<checks, runResults, overallHealth, subsRC, subsCR, Len(subsOH)>>

\* The step is a branch of the select of service.run that takes a request or a Result.
CoordinatorBranch ==
    \/ \E id \in IDs, opts \in ReqOpts, checkerNil \in BOOLEAN : CoordRegister(id, opts, checkerNil)
    \/ \E r \in BagToSet(reports) :
         \E order \in Orders(StoredIDs(ResultsAtUpdate(runResults, r))) : CoordResult(r, order)
    \/ \E ready \in BOOLEAN : CoordGetRegisteredChecks(ready)
    \/ \E filter \in Filters, ready \in BOOLEAN : CoordGetCheckResults(filter, ready)
    \/ \E ready \in BOOLEAN : CoordGetOverallHealth(ready)
    \/ \E ready \in BOOLEAN : CoordSubscribeForRegisteredChecks(ready)
    \/ \E filter \in Filters, ready \in BOOLEAN : CoordSubscribeForCheckResults(filter, ready)
    \/ CoordSubscribeForOverallHealthChanges

\* C35: the check table, the result map, the subscription sets and the overall health
\* change only in a branch of the coordinator's select; the steps of the scheduler,
\* checker, report and delivery goroutines, of the subscribers and of the callers of
\* Shutdown leave them as they are; and the coordinator takes a request or a Result
\* only at its select, after the branch before has completed.
C35_CoordinatorOwnsState ==
    [][/\ OwnedState' # OwnedState => CoordinatorBranch
       /\ CoordinatorBranch => coordPc = "select"
       /\ (reports' # reports /\ coordPc # "select") => OwnedState' = OwnedState
      ]_vars

\* C35 witness: the coordinator is parked in the middle of a branch, at the reply of a
\* snapshot request, while a Result is offered to it and the store already holds one.
C35_Witness ==
    /\ coordPc = "sendReply"
    /\ reports # EmptyBag
    /\ DOMAIN runResults # {}

\* C36: every entry of the check table carries the options of its request after
\* defaulting: a zero Timeout or RunInterval is replaced by the engine's default, the
\* RunInterval is at least the minimum and the Timeout at most the maximum, and the
\* Checker of the entry holds that Timeout.  A request is validated after defaulting: it
\* is accepted when its defaulted options are within the bounds, even when the options
\* as sent are not.
C36_EffectiveOptions ==
    /\ [](\A k \in 1..Len(checks) :
              /\ checks[k].Timeout # 0
              /\ checks[k].RunInterval # 0
              /\ checks[k].RunInterval >= MinRunInterval
              /\ checks[k].Timeout <= MaxTimeout
              /\ checks[k].Checker.Timeout = checks[k].Timeout)
    /\ [][\A id \in IDs, opts \in ReqOpts :
              CoordRegister(id, opts, FALSE) =>
                  IF ValidOpts(opts) /\ id \notin TableIDs
                  THEN /\ Len(checks') = Len(checks) + 1
                       /\ checks'[Len(checks')].Timeout =
                              (IF opts.Timeout = 0 THEN DefaultTimeout ELSE opts.Timeout)
                       /\ checks'[Len(checks')].RunInterval =
                              (IF opts.RunInterval = 0 THEN DefaultRunInterval
                                                       ELSE opts.RunInterval)
                  ELSE checks' = checks
         ]_vars

\* C36 witness: the table holds a check registered with a zero Timeout and a zero
\* RunInterval, which as sent is below the minimum interval, next to a check registered
\* with a Timeout of its own.
C36_Witness ==
    /\ 0 < MinRunInterval
    /\ \E j, k \in 1..Len(checks) :
          /\ checks[j].Timeout = DefaultTimeout
          /\ checks[j].RunInterval = DefaultRunInterval
          /\ checks[k].Timeout \in ReqTimeouts \ {0, DefaultTimeout}

\* C37: a Result is in the store before it is published.  The step that processes a
\* Result r stores it, and every delivery goroutine that step starts carries r or the
\* overall health computed from the store that holds r; an entry of the store is never
\* removed and changes only when a later Result for its ID is processed.  Hence whenever
\* a Result is on its way to a subscriber, or was received, a CheckResults() snapshot
\* holds a Result for its ID: that one, or one processed after it.
C37_StoredBeforePublished ==
    /\ [](\A d \in BagToSet(deliveries) :
              d.stream = "CR" => \E x \in FilteredResults(runResults, "nil") : x.ID = d.val.ID)
    /\ [][/\ \A r \in BagToSet(reports) :
                 \A order \in Orders(DOMAIN runResults \cup {r.ID}) :
                     CoordResult(r, order) =>
                         /\ r \in FilteredResults(runResults', "nil")
                         /\ overallHealth' = Severity(runResults')
                         /\ \A d \in BagToSet(deliveries') :
                                CopiesIn(d, deliveries') > CopiesIn(d, deliveries) =>
                                    \/ d.stream = "CR" /\ d.val = r
                                    \/ d.stream = "OH" /\ d.val = Severity(runResults')
          /\ \A id \in DOMAIN runResults :
                 /\ id \in DOMAIN runResults'
                 /\ runResults'[id] # runResults[id] =>
                        \E r \in BagToSet(reports) :
                            /\ r.ID = id
                            /\ runResults'[id] = r
                            /\ \E order \in Orders(DOMAIN runResults \cup {r.ID}) :
                                   CoordResult(r, order)
         ]_vars

\* C37 witness: a Result that changed the overall health is on its way to a result
\* subscriber, the change is on its way to an overall-health subscriber, and the store
\* holds that Result.
C37_Witness ==
    \E d, e \in BagToSet(deliveries) :
        /\ d.stream = "CR"
        /\ d.val.ID \in DOMAIN runResults
        /\ runResults[d.val.ID] = d.val
        /\ e.stream = "OH"
        /\ e.val = d.val.Status
        /\ e.val # Green

\* C38: every ID that has a Result in the store is the ID of a check in the table, and so
\* is every ID that has a Schedule goroutine, a running raw function or a Result on its
\* way to the coordinator; a Register that is rejected starts no scheduler and leaves
\* the table, the pending Results and the store as they are.
C38_ResultsOfRegisteredChecks ==
    /\ [](/\ DOMAIN runResults \subseteq TableIDs
          /\ \A id \in IDs : (sched[id] # "none" \/ abandoned[id] > 0) => id \in TableIDs
          /\ \A r \in BagToSet(reports) : r.ID \in TableIDs)
    /\ [][\A id \in IDs, opts \in ReqOpts, checkerNil \in BOOLEAN :
              (CoordRegister(id, opts, checkerNil)
                   /\ (checkerNil \/ ~ValidOpts(opts) \/ id \in TableIDs)) =>
                  /\ checks' = checks
                  /\ sched' = sched
                  /\ reports' = reports
                  /\ runResults' = runResults
         ]_vars

\* C38 witness: a request for an ID that is not in the table is being rejected while the
\* store holds a Result of a registered check and none for that ID.
C38_Witness ==
    /\ coordPc = "sendError"
    /\ regReq # NoReq
    /\ regReq.id \notin TableIDs
    /\ DOMAIN runResults # {}
    /\ sched[regReq.id] = "none"

\* C39: the check table only grows at its end: no step removes, replaces or reorders an
\* entry, a step adds at most one, and so the RegisteredChecks() snapshot of a state is
\* a prefix of the snapshot of every later state.
C39_TableAppendOnly ==
    [][/\ Len(RegisteredChecksSnapshot(checks')) >= Len(RegisteredChecksSnapshot(checks))
       /\ Len(checks') <= Len(checks) + 1
       /\ \A k \in 1..Len(checks) :
              RegisteredChecksSnapshot(checks')[k] = RegisteredChecksSnapshot(checks)[k]
      ]_vars

\* C39 witness: the coordinator is replying to a snapshot or subscribe request after a
\* second check was appended to the table behind the first.
C39_Witness ==
    /\ Len(checks) = 2
    /\ checks[1].ID # checks[2].ID
    /\ coordPc = "sendReply"

\* C40: a Register, accepted or rejected, a snapshot request and a subscribe request
\* leave the result store and the overall health as they are; processing a Result
\* changes no entry of the store but the one of its ID, and leaves the check table and
\* the three subscription sets, with what their channels hold, as they are.
C40_Frame ==
    [][/\ ( \/ \E id \in IDs, opts \in ReqOpts, checkerNil \in BOOLEAN :
                  CoordRegister(id, opts, checkerNil)
            \/ \E ready \in BOOLEAN : CoordGetRegisteredChecks(ready)
            \/ \E filter \in Filters, ready \in BOOLEAN : CoordGetCheckResults(filter, ready)
            \/ \E ready \in BOOLEAN : CoordGetOverallHealth(ready)
            \/ \E ready \in BOOLEAN : CoordSubscribeForRegisteredChecks(ready)
            \/ \E filter \in Filters, ready \in BOOLEAN :
                  CoordSubscribeForCheckResults(filter, ready)
            \/ CoordSubscribeForOverallHealthChanges ) =>
              /\ runResults' = runResults
              /\ overallHealth' = overallHealth
       /\ \A r \in BagToSet(reports) :
              \A order \in Orders(StoredIDs(ResultsAtUpdate(runResults, r))) :
                  CoordResult(r, order) =>
                      /\ \A id \in DOMAIN runResults \ {r.ID} :
                             id \in DOMAIN runResults' /\ runResults'[id] = runResults[id]
                      /\ DOMAIN runResults' \subseteq DOMAIN runResults \cup {r.ID}
                      /\ checks' = checks
                      /\ subsRC' = subsRC
                      /\ subsCR' = subsCR
                      /\ subsOH' = subsOH
      ]_vars

\* C40 witness: with a registration subscriber present, both checks are registered, the
\* store holds a Result of each, and the overall health is no longer Green.
C40_Witness ==
    /\ Len(checks) = NumIDs
    /\ DOMAIN runResults = IDs
    /\ subsRC + Len(subsCR) + Len(subsOH) > 0
    /\ overallHealth # Green

====
